---- MODULE Spec2Model ----
(***************************************************************************)
(* A model of the Spyral / pcutils analysis pipeline:                      *)
(*   - run_spyral       (spyral/run.py)            the run driver          *)
(*   - phase_4          (pcutils/phase_4.py)       particle-ID gate +      *)
(*                                                 solver loop             *)
(*   - Cut2D, write_cut_json, load_cut_json (spyral/plot/cut.py)           *)
(*   - estimate_physics (spyral/core/estimator.py)                         *)
(* Each part has its own specification (SpecRun, SpecPhase4, SpecCut,      *)
(* SpecEst, SpecAzimuthal); the variables of the other parts stay at their *)
(* initial values.                                                         *)
(***************************************************************************)
EXTENDS Integers, Sequences, FiniteSets, TLC

VARIABLES
    config,     \* run driver: config.run of run_spyral
    idx,        \* run driver: the loop variable of run_spyral
    rpc,        \* run driver: position in run_spyral
    phase,      \* run driver: the phase about to be tested / being executed
    log,        \* run driver: the phase invocations, returns and raises so far
    p4,         \* phase_4: its local state
    fs,         \* cut.py: the content of the cut file and the last load result
    est,        \* estimate_physics: the call (inputs, locals, outcome)
    results,    \* estimate_physics: the results dictionary (column -> list)
    az,         \* azimuthal normalisation: input and output
    frib,       \* FribEvent: the peaks of its traces and the results of its methods
    ivp         \* Phase5Test: one trial of the solver (state of the ODE, objective)

vars == <<config, idx, rpc, phase, log, p4, fs, est, results, az, frib, ivp>>

runVars == <<config, idx, rpc, phase, log>>

(***************************************************************************)
(* Bounds of the model                                                     *)
(***************************************************************************)
MaxRun == 2

Booleans == {TRUE, FALSE}

(***************************************************************************)
(* Helpers                                                                 *)
(***************************************************************************)
Range(s) == {s[i] : i \in 1..Len(s)}

SeqsUpTo(S, n) == UNION {[1..k -> S] : k \in 0..n}

(***************************************************************************)
(* run_spyral (src/spyral/run.py)                                          *)
(***************************************************************************)
NumPhases == 4

\* config.run.do_phase1 .. do_phase4 as a function of the phase number
do_phase(k) == config.do_phase[k]

\* mutant of LoopContinues: range(run_min, run_max) leaves run_max out
LoopContinuesExclusive(i) == i < config.run_max

\* for idx in range(config.run.run_min, config.run.run_max + 1, 1)
LoopContinues(i) == i <= config.run_max

\* the variables of the other parts of the model
notRun == <<p4, fs, est, results, az, frib, ivp>>

RunInit ==
    /\ config \in [run_min : 0..MaxRun, run_max : 0..MaxRun,
                   do_phase : [1..NumPhases -> Booleans]]
    /\ idx = config.run_min
    /\ rpc = "test"
    /\ phase = 1
    /\ log = <<>>
    /\ p4 = <<>> /\ fs = <<>> /\ est = <<>> /\ results = <<>> /\ az = <<>> /\ frib = <<>> /\ ivp = <<>>

\* what follows phase k of run idx: the next phase, or phase 1 of the next run
Advance(k) ==
    IF k < NumPhases
    THEN /\ phase' = k + 1
         /\ idx' = idx
    ELSE /\ phase' = 1
         /\ idx' = idx + 1

\* the for statement finds the range exhausted: run_spyral returns
LoopExit ==
    /\ rpc = "test"
    /\ phase = 1
    /\ ~LoopContinues(idx)
    /\ rpc' = "done"
    /\ UNCHANGED <<config, idx, phase, log, notRun>>

\* if config.run.do_phaseK is false: the phase is skipped
SkipPhase ==
    /\ rpc = "test"
    /\ LoopContinues(idx)
    /\ ~do_phase(phase)
    /\ Advance(phase)
    /\ UNCHANGED <<config, rpc, log, notRun>>

\* if config.run.do_phaseK: phase_K(idx, ...) is called
CallPhase ==
    /\ rpc = "test"
    /\ LoopContinues(idx)
    /\ do_phase(phase)
    /\ rpc' = "in"
    /\ log' = Append(log, [ev |-> "call", run |-> idx, phase |-> phase])
    /\ UNCHANGED <<config, idx, phase, notRun>>

\* the phase returns normally
PhaseReturns ==
    /\ rpc = "in"
    /\ rpc' = "test"
    /\ log' = Append(log, [ev |-> "ret", run |-> idx, phase |-> phase])
    /\ Advance(phase)
    /\ UNCHANGED <<config, notRun>>

\* the phase raises (e.g. an unexpected dataset layout): run_spyral has no
\* try/except, so the exception leaves the for loop and run_spyral
PhaseRaises ==
    /\ rpc = "in"
    /\ rpc' = "raised"
    /\ log' = Append(log, [ev |-> "raise", run |-> idx, phase |-> phase])
    /\ UNCHANGED <<config, idx, phase, notRun>>

RunNext ==
    \/ LoopExit
    \/ SkipPhase
    \/ CallPhase
    \/ PhaseReturns
    \/ PhaseRaises

SpecRun == RunInit /\ [][RunNext]_vars

(***************************************************************************)
(* Cut2D, write_cut_json, load_cut_json (src/spyral/plot/cut.py)           *)
(* A file is a sequence of JSON tokens (white space left out); a float is  *)
(* written as its digits.  Vertex coordinates are floats with integer      *)
(* values.                                                                 *)
(***************************************************************************)
MaxVerts == 3

MaxWrites == 2

CutNames == {"cut_0", "mycut"}

CutCoords == {-1, 10}

\* Cut2D.__init__: the Path of the vertices (closed=False) and the name
Cut2D(name, vertices) == [name |-> name, vertices |-> vertices]

NoCut == Cut2D("", <<>>)

\* one edge (x0, y0) -> (x1, y1) of the crossing test of Path.contains_point
EdgeCrosses(x0, y0, x1, y1, tx, ty) ==
    LET yflag0 == y0 >= ty
        yflag1 == y1 >= ty
    IN  /\ yflag0 # yflag1
        /\ (((y1 - ty) * (x0 - x1) >= (x1 - tx) * (y0 - y1)) <=> yflag1)

\* Cut2D.is_point_inside: path.contains_point((x, y)); the path is closed
\* from its last vertex back to its first for the test
is_point_inside(cut, x, y) ==
    LET v == cut.vertices
        n == Len(v)
        nxt(i) == (i % n) + 1
        crossings == {i \in 1..n :
                        EdgeCrosses(v[i][1], v[i][2], v[nxt(i)][1], v[nxt(i)][2], x, y)}
    IN  Cardinality(crossings) % 2 = 1

DigitChars == <<"0", "1", "2", "3", "4", "5", "6", "7", "8", "9">>

RECURSIVE DigitsOf(_)
\* the decimal digits of a natural number
DigitsOf(n) ==
    IF n < 10 THEN <<DigitChars[n + 1]>>
    ELSE DigitsOf(n \div 10) \o <<DigitChars[(n % 10) + 1]>>

\* repr of a float with an integer value, as json.dumps writes it: -1.0, 10.0
FloatRepr(v) ==
    (IF v < 0 THEN <<"-">> ELSE <<>>) \o DigitsOf(IF v < 0 THEN -v ELSE v) \o <<".", "0">>

RECURSIVE VerticesJson(_)
\* path.vertices.tolist() as JSON: [x, y], [x, y], ...
VerticesJson(vs) ==
    IF vs = <<>> THEN <<>>
    ELSE <<"[">> \o FloatRepr(vs[1][1]) \o <<",">> \o FloatRepr(vs[1][2]) \o <<"]">>
         \o (IF Len(vs) > 1 THEN <<",">> ELSE <<>>) \o VerticesJson(Tail(vs))

\* Cut2D.to_json_str: json.dumps of {'name': ..., 'vertices': ...}
to_json_str(cut) ==
    <<"{", "\"name\"", ":", "\"", cut.name, "\"", ",", "\"vertices\"", ":", "[">>
    \o VerticesJson(cut.vertices) \o <<"]", "}">>

Tok(toks, i) == IF i <= Len(toks) THEN toks[i] ELSE "<eof>"

DigitValue(c) == CHOOSE d \in 0..9 : DigitChars[d + 1] = c

IsDigit(c) == \E d \in 0..9 : DigitChars[d + 1] = c

RECURSIVE ParseDigits(_, _, _)
\* the digits from position i on: [v |-> their value, next |-> first position after]
ParseDigits(toks, i, acc) ==
    IF IsDigit(Tok(toks, i))
    THEN ParseDigits(toks, i + 1, 10 * acc + DigitValue(toks[i]))
    ELSE [v |-> acc, next |-> i]

\* a JSON number, given its integer part and its fraction part
NumberFrom(toks, i, j, int, frac) ==
    IF /\ int.next > j
       /\ Tok(toks, int.next) = "."
       /\ frac.next > int.next + 1
       /\ frac.v = 0
    THEN [ok |-> TRUE, v |-> IF j > i THEN -int.v ELSE int.v, next |-> frac.next]
    ELSE [ok |-> FALSE, v |-> 0, next |-> i]

\* a JSON number, given its integer part (the digits from position j on)
NumberAfterInt(toks, i, j, int) ==
    NumberFrom(toks, i, j, int, ParseDigits(toks, int.next + 1, 0))

\* a JSON number [-]digits.digits; the model holds integer values only
ParseNumber(toks, i) ==
    NumberAfterInt(toks, i, IF Tok(toks, i) = "-" THEN i + 1 ELSE i,
                   ParseDigits(toks, IF Tok(toks, i) = "-" THEN i + 1 ELSE i, 0))

\* a JSON array of two numbers, given the two numbers
VertexFrom(toks, i, x, y) ==
    IF /\ Tok(toks, i) = "["
       /\ x.ok
       /\ Tok(toks, x.next) = ","
       /\ y.ok
       /\ Tok(toks, y.next) = "]"
    THEN [ok |-> TRUE, v |-> <<x.v, y.v>>, next |-> y.next + 1]
    ELSE [ok |-> FALSE, v |-> <<0, 0>>, next |-> i]

VertexAfterX(toks, i, x) == VertexFrom(toks, i, x, ParseNumber(toks, x.next + 1))

\* a JSON array of two numbers: [x, y]
ParseVertex(toks, i) == VertexAfterX(toks, i, ParseNumber(toks, i + 1))

RECURSIVE ParseVertexItems(_, _, _)
\* the rest of the list after vertex v
VertexItemsAfter(toks, i, acc, v) ==
    IF ~v.ok THEN [ok |-> FALSE, v |-> acc, next |-> i]
    ELSE IF Tok(toks, v.next) = ","
         THEN ParseVertexItems(toks, v.next + 1, Append(acc, v.v))
         ELSE IF Tok(toks, v.next) = "]"
              THEN [ok |-> TRUE, v |-> Append(acc, v.v), next |-> v.next + 1]
              ELSE [ok |-> FALSE, v |-> acc, next |-> i]

\* vertex, vertex, ... up to the closing bracket of the list
ParseVertexItems(toks, i, acc) == VertexItemsAfter(toks, i, acc, ParseVertex(toks, i))

\* a JSON array of vertices
ParseVertexList(toks, i) ==
    IF Tok(toks, i) # "[" THEN [ok |-> FALSE, v |-> <<>>, next |-> i]
    ELSE IF Tok(toks, i + 1) = "]" THEN [ok |-> TRUE, v |-> <<>>, next |-> i + 2]
         ELSE ParseVertexItems(toks, i + 1, <<>>)

\* a JSON string: quote, characters, quote
ParseString(toks, i) ==
    IF Tok(toks, i) = "\"" /\ Tok(toks, i + 2) = "\""
    THEN [ok |-> TRUE, v |-> Tok(toks, i + 1), next |-> i + 3]
    ELSE [ok |-> FALSE, v |-> "", next |-> i]

\* the JSON object, given the values of its two members
ObjectFrom(toks, name, vs) ==
    IF /\ Tok(toks, 1) = "{"
       /\ Tok(toks, 2) = "\"name\""
       /\ Tok(toks, 3) = ":"
       /\ name.ok
       /\ Tok(toks, name.next) = ","
       /\ Tok(toks, name.next + 1) = "\"vertices\""
       /\ Tok(toks, name.next + 2) = ":"
       /\ vs.ok
       /\ Tok(toks, vs.next) = "}"
    THEN [ok |-> TRUE, keys |-> {"name", "vertices"},
          name |-> name.v, vertices |-> vs.v, next |-> vs.next + 1]
    ELSE [ok |-> FALSE, keys |-> {}, name |-> "", vertices |-> <<>>, next |-> 1]

ObjectAfterName(toks, name) == ObjectFrom(toks, name, ParseVertexList(toks, name.next + 3))

\* the JSON object at the head of the text: the keys it holds and their values
ParseObject(toks) == ObjectAfterName(toks, ParseString(toks, 4))

\* one document and nothing after it
WholeDocument(buffer, obj) ==
    IF obj.ok /\ obj.next = Len(buffer) + 1 THEN obj ELSE [obj EXCEPT !.ok = FALSE]

\* json.loads(buffer): one JSON document and nothing after it, else
\* JSONDecodeError
json_loads(buffer) == WholeDocument(buffer, ParseObject(buffer))

\* mutant of OpenForWrite: mode 'w' truncates the file
OpenTruncating(content) == <<>>

\* open(filepath, 'a'): what the file holds when the write starts
OpenForWrite(content) == content

\* load_cut_json, lines 85-89: the dictionary json.loads returned (or its
\* JSONDecodeError, which load_cut_json does not catch)
CutOfDict(cut_dict) ==
    IF ~cut_dict.ok THEN [status |-> "raised_JSONDecodeError", cut |-> NoCut]
    ELSE IF "name" \notin cut_dict.keys \/ "vertices" \notin cut_dict.keys
         THEN [status |-> "None_format", cut |-> NoCut]
         ELSE [status |-> "ok", cut |-> Cut2D(cut_dict.name, cut_dict.vertices)]

\* load_cut_json: the Cut2D of the file, None, or an exception
load_cut_json(file) ==
    IF ~file.exists THEN [status |-> "None_OSError", cut |-> NoCut]
    ELSE CutOfDict(json_loads(file.content))

NotLoaded == [status |-> "not_loaded", cut |-> NoCut]

notCut == <<config, idx, rpc, phase, log, p4, est, results, az, frib, ivp>>

CutInit ==
    /\ fs \in [cut : {Cut2D(n, v) : n \in CutNames,
                        v \in SeqsUpTo(CutCoords \X CutCoords, MaxVerts) \ {<<>>}},
               exists : {FALSE}, content : {<<>>}, writes : {0}, ret : {"none"},
               loaded : {NotLoaded}]
    /\ config = [run_min |-> 0, run_max |-> 0, do_phase |-> [k \in 1..NumPhases |-> FALSE]]
    /\ idx = 0 /\ rpc = "done" /\ phase = 1 /\ log = <<>>
    /\ p4 = <<>> /\ est = <<>> /\ results = <<>> /\ az = <<>> /\ frib = <<>> /\ ivp = <<>>

\* write_cut_json returns True: the JSON text is written at the end of the file
WriteCut ==
    /\ fs.writes < MaxWrites
    /\ fs' = [fs EXCEPT !.exists = TRUE,
                        !.content = OpenForWrite(fs.content) \o to_json_str(fs.cut),
                        !.writes = @ + 1,
                        !.ret = "True",
                        !.loaded = NotLoaded]
    /\ UNCHANGED notCut

\* write_cut_json returns False: open fails with OSError, nothing is written
WriteCutFails ==
    /\ fs.writes < MaxWrites
    /\ fs' = [fs EXCEPT !.ret = "False", !.loaded = NotLoaded]
    /\ UNCHANGED notCut

\* load_cut_json(filepath)
LoadCut ==
    /\ fs' = [fs EXCEPT !.loaded = load_cut_json(fs)]
    /\ UNCHANGED notCut

CutNext ==
    \/ WriteCut
    \/ WriteCutFails
    \/ LoadCut

SpecCut == CutInit /\ [][CutNext]_vars

(***************************************************************************)
(* phase_4 (src/pcutils/phase_4.py)                                        *)
(* The estimate table is a dictionary of columns; (dEdx, brho) are floats  *)
(* with integer values.                                                    *)
(***************************************************************************)
MaxRows == 2

DEdxValues == {0, 4}

BrhoValues == {0, 2}

\* one row of the phase-3 estimate table (polar stands for the columns polar,
\* azimuthal, vertex_x, vertex_y, vertex_z and direction, which phase_4
\* reads in the same way)
EstimateRows ==
    [event : 0..1, cluster_index : 0..1, dEdx : DEdxValues, brho : BrhoValues, polar : 0..1]

\* the particle-ID cuts a particle-ID file may hold
PidCuts ==
    { Cut2D("square", <<<<-1, -1>>, <<1, -1>>, <<1, 3>>, <<-1, 3>>>>),
      Cut2D("triangle", <<<<-1, -1>>, <<6, -1>>, <<-1, 6>>>>) }

ColumnNames == {"event", "cluster_index", "dEdx", "brho", "polar"}

\* pl.scan_parquet(estimate_path): the table as columns
ColumnsOf(rows) == [c \in ColumnNames |-> [i \in 1..Len(rows) |-> rows[i][c]]]

\* Cut2D.is_cols_inside: the struct fields in their order (dEdx, brho),
\* transposed to points, through path.contains_points
is_cols_inside(cut, dEdx, brho) ==
    [i \in 1..Len(dEdx) |-> is_point_inside(cut, dEdx[i], brho[i])]

RECURSIVE KeptIndices(_, _)
\* the indices at which the mask is true, ascending, from index i on
KeptIndices(mask, i) ==
    IF i > Len(mask) THEN <<>>
    ELSE (IF mask[i] THEN <<i>> ELSE <<>>) \o KeptIndices(mask, i + 1)

\* DataFrame.filter(mask): every column keeps the rows where the mask is true
FilterColumns(df, kept) ==
    [c \in ColumnNames |-> [j \in 1..Len(kept) |-> df[c][kept[j]]]]

\* mutant of estimates_gated: the filter is left out
EstimatesUngated(df, cut) == df

\* line 34: estimate_df.filter(pl.struct(['dEdx', 'brho']).map(pid.cut.is_cols_inside))
estimates_gated(df, cut) ==
    FilterColumns(df, KeptIndices(is_cols_inside(cut, df["dEdx"], df["brho"]), 1))

\* mutant of AfterLoadPid: the check of pid against None is left out
AfterLoadPidUnchecked(pid_ok) == "gate"

\* lines 19-21: if pid is None: print, return
AfterLoadPid(pid_ok) == IF pid_ok THEN "gate" ELSE "returned"

\* lines 52-62: the solve_physics call of one row of the gated table
SolveCall(gated, row) ==
    [cidx  |-> gated["cluster_index"][row],
     event |-> gated["event"][row],
     iv    |-> [polar |-> gated["polar"][row], brho |-> gated["brho"][row]]]

notP4 == <<config, idx, rpc, phase, log, fs, est, results, az, frib, ivp>>

P4Init ==
    /\ p4 \in [pc : {"start"}, rows : SeqsUpTo(EstimateRows, MaxRows),
               pid_ok : {FALSE}, cut : {NoCut}, opened : {FALSE},
               gated : {ColumnsOf(<<>>)}, flush_val : {0}, flush_count : {0},
               count : {0}, row : {0}, solve_calls : {<<>>}, written : {FALSE}]
    /\ config = [run_min |-> 0, run_max |-> 0, do_phase |-> [k \in 1..NumPhases |-> FALSE]]
    /\ idx = 0 /\ rpc = "done" /\ phase = 1 /\ log = <<>>
    /\ fs = <<>> /\ est = <<>> /\ results = <<>> /\ az = <<>> /\ frib = <<>> /\ ivp = <<>>

\* lines 18-21: load_particle_id returns None
P4PidError ==
    /\ p4.pc = "start"
    /\ p4' = [p4 EXCEPT !.pc = AfterLoadPid(FALSE)]
    /\ UNCHANGED notP4

\* lines 18-19: load_particle_id returns a ParticleID
P4PidLoaded ==
    /\ p4.pc = "start"
    /\ \E cut \in PidCuts :
          p4' = [p4 EXCEPT !.pc = AfterLoadPid(TRUE), !.pid_ok = TRUE, !.cut = cut]
    /\ UNCHANGED notP4

\* lines 23-43: open the files, gate the estimates, set up the counters
P4Gate ==
    /\ p4.pc = "gate"
    /\ p4' = [p4 EXCEPT !.pc = "loop",
                        !.opened = TRUE,
                        !.gated = estimates_gated(ColumnsOf(p4.rows), p4.cut),
                        !.flush_val = Len(estimates_gated(ColumnsOf(p4.rows), p4.cut)["event"]) \div 100,
                        !.flush_count = 0,
                        !.count = 0,
                        !.row = 0]
    /\ UNCHANGED notP4

\* lines 45-62: one iteration of the loop over the gated rows
P4SolveRow ==
    /\ p4.pc = "loop"
    /\ p4.row < Len(p4.gated["event"])
    /\ p4' = [p4 EXCEPT !.count = (IF p4.count > p4.flush_val THEN 0 ELSE p4.count) + 1,
                        !.flush_count = IF p4.count > p4.flush_val THEN @ + 1 ELSE @,
                        !.solve_calls = Append(@, SolveCall(p4.gated, p4.row + 1)),
                        !.row = @ + 1]
    /\ UNCHANGED notP4

\* lines 64-65: the loop is over, the results are written
P4Write ==
    /\ p4.pc = "loop"
    /\ p4.row = Len(p4.gated["event"])
    /\ p4' = [p4 EXCEPT !.pc = "done", !.written = TRUE]
    /\ UNCHANGED notP4

P4Next ==
    \/ P4PidError
    \/ P4PidLoaded
    \/ P4Gate
    \/ P4SolveRow
    \/ P4Write

SpecPhase4 == P4Init /\ [][P4Next]_vars

(***************************************************************************)
(* Floating-point values as the estimator meets them: a finite number (an  *)
(* integer here), NaN, or an infinity (v is its sign).  Comparisons with   *)
(* NaN are false, as in IEEE 754 and numpy.                                *)
(***************************************************************************)
Fin(n) == [k |-> "fin", v |-> n]

NaN == [k |-> "nan", v |-> 0]

Inf(sign) == [k |-> "inf", v |-> sign]

IsNaN(a) == a.k = "nan"

IsFinite(a) == a.k = "fin"

Abs(n) == IF n < 0 THEN -n ELSE n

Sign(n) == IF n < 0 THEN -1 ELSE IF n > 0 THEN 1 ELSE 0

\* a < b
FLess(a, b) ==
    /\ ~IsNaN(a)
    /\ ~IsNaN(b)
    /\ \/ a.k = "fin" /\ b.k = "fin" /\ a.v < b.v
       \/ a.k = "inf" /\ a.v < 0 /\ ~(b.k = "inf" /\ b.v < 0)
       \/ b.k = "inf" /\ b.v > 0 /\ ~(a.k = "inf" /\ a.v > 0)

\* a > b
FGreater(a, b) == FLess(b, a)

\* a <= b
FLessEq(a, b) == ~IsNaN(a) /\ ~IsNaN(b) /\ ~FLess(b, a)

FNeg(a) == IF a.k = "nan" THEN NaN ELSE [a EXCEPT !.v = -a.v]

\* a + b
FAdd(a, b) ==
    IF IsNaN(a) \/ IsNaN(b) THEN NaN
    ELSE IF a.k = "inf" /\ b.k = "inf" THEN (IF a.v = b.v THEN a ELSE NaN)
    ELSE IF a.k = "inf" THEN a
    ELSE IF b.k = "inf" THEN b
    ELSE Fin(a.v + b.v)

\* a - b
FSub(a, b) == FAdd(a, FNeg(b))

\* a / b between numpy floats: x/0 is an infinity, 0/0 is NaN (the model's
\* divisors are 0, 1 and -1, so a finite quotient is exact)
FDiv(a, b) ==
    IF IsNaN(a) \/ IsNaN(b) THEN NaN
    ELSE IF a.k = "inf" /\ b.k = "inf" THEN NaN
    ELSE IF a.k = "inf" THEN Inf(a.v * (IF b.v < 0 THEN -1 ELSE 1))
    ELSE IF b.k = "inf" THEN Fin(0)
    ELSE IF b.v = 0 THEN (IF a.v = 0 THEN NaN ELSE Inf(Sign(a.v)))
    ELSE Fin((Sign(b.v) * a.v) \div Abs(b.v))

RECURSIVE ISqrtFrom(_, _)
\* Newton's iteration from above: the first x with (x + n/x)/2 >= x
ISqrtFrom(n, x) ==
    IF (x + n \div x) \div 2 >= x THEN x ELSE ISqrtFrom(n, (x + n \div x) \div 2)

\* the square root of n, rounded down to the model's unit (1 mm)
ISqrt(n) == IF n = 0 THEN 0 ELSE ISqrtFrom(n, n)

(***************************************************************************)
(* estimate_physics (src/spyral/core/estimator.py)                         *)
(* A point is (x, y, z, charge) in mm; indices are Python's (from 0).      *)
(***************************************************************************)
MaxLen == 4

LongLen == 21

AngQ == 15

Cutoff == 700

Pt(x, y, z, q) == [x |-> x, y |-> y, z |-> z, q |-> q]

\* the points the model's clusters are made of
EstPoints ==
    {Pt(0, 0, 0, 1), Pt(1, 1, 300, 2), Pt(2, 0, 600, 3), Pt(0, 2, 900, 4),
     Pt(1, 3, 1200, 5), Pt(0, 4, 1500, 6)}

\* cluster c with its i-th point repeated until the cluster has LongLen points
Stretch(c, i) ==
    [j \in 1..LongLen |->
        IF j < i THEN c[j]
        ELSE IF j <= i + (LongLen - Len(c)) THEN c[i]
        ELSE c[j - (LongLen - Len(c))]]

\* cluster c repeated until the cluster has LongLen points
Cycle(c) == [j \in 1..LongLen |-> c[((j - 1) % Len(c)) + 1]]

ShortClusters == SeqsUpTo(EstPoints, MaxLen)

\* x^2 + y^2 = r^2 about (xc, yc), as <<xc, yc, r>>, through points of the model
ArcCircles == {<<1, 0, 1>>, <<0, 1, 1>>, <<0, 3, 1>>}

\* three different points on one of these circles
ArcTriples ==
    {c \in [1..3 -> EstPoints] :
        /\ c[1] # c[2] /\ c[2] # c[3] /\ c[1] # c[3]
        /\ \E K \in ArcCircles : \A i \in 1..3 :
              (c[i].x - K[1]) * (c[i].x - K[1]) + (c[i].y - K[2]) * (c[i].y - K[2]) = K[3] * K[3]}

\* first half: the arc b, its last point repeated; second half: the arc e,
\* its last point repeated
TwoArcs(b, e) ==
    [j \in 1..LongLen |->
        IF j <= LongLen \div 2
        THEN b[IF j < 3 THEN j ELSE 3]
        ELSE e[IF j - LongLen \div 2 < 3 THEN j - LongLen \div 2 ELSE 3]]

\* the cluster.data of the model: every short sequence of points, and long
\* ones made of a short one or of two arcs
EstClusters ==
    ShortClusters
    \cup UNION {{Stretch(c, i) : i \in 1..Len(c)} : c \in ShortClusters}
    \cup {Cycle(c) : c \in ShortClusters \ {<<>>}}
    \cup {TwoArcs(b, e) : b, e \in ArcTriples}

\* estimate_params.min_total_trajectory_points
MinTotals == {2, 3}

\* detector_params.beam_region_radius
BeamRadii == {0, 2}

\* estimate_params.max_distance_from_beam_axis
MaxDistances == {1}

\* detector_params.magnetic_field
MagneticFields == {1}

\* data[a:b]
Slice(data, a, b) == SubSeq(data, a + 1, IF b < Len(data) THEN b ELSE Len(data))

\* np.flip(data, axis=0)
Flip(data) == [i \in 1..Len(data) |-> data[Len(data) + 1 - i]]

\* np.argmax: the first index (from 0) of the greatest value
ArgMax(values) ==
    (CHOOSE i \in 1..Len(values) :
        /\ \A j \in 1..Len(values) : values[j] <= values[i]
        /\ \A j \in 1..(i - 1) : values[j] < values[i]) - 1

\* np.linalg.norm(p[:2]) squared; comparisons of norms are made on the squares
Rho2(p) == p.x * p.x + p.y * p.y

\* the square of the distance in the (x, y) plane
Dist2xy(p, x, y) == (p.x - x) * (p.x - x) + (p.y - y) * (p.y - y)

\* the square of the distance in space
Dist2(p, r) == (p.x - r.x) * (p.x - r.x) + (p.y - r.y) * (p.y - r.y) + (p.z - r.z) * (p.z - r.z)

\* np.linalg.norm of the difference of two points
Norm3(p, r) == ISqrt(Dist2(p, r))

XYSet(points) == {<<points[i].x, points[i].y>> : i \in 1..Len(points)}

\* all the points lie on one line (or there are fewer than three)
Collinear(xys) ==
    \A a, b, c \in xys :
        (b[1] - a[1]) * (c[2] - a[2]) - (b[2] - a[2]) * (c[1] - a[1]) = 0

\* the circles a fit may give: centre on an axis, so that the point of the
\* circle nearest to the beam axis has integer coordinates
CircleCandidates ==
    { [xc |-> 1, yc |-> 0, r |-> 1], [xc |-> 0, yc |-> 1, r |-> 1],
      [xc |-> 0, yc |-> 3, r |-> 1], [xc |-> -2, yc |-> 0, r |-> 3] }

OnCircle(K, xys) ==
    \A d \in xys : (d[1] - K.xc) * (d[1] - K.xc) + (d[2] - K.yc) * (d[2] - K.yc) = K.r * K.r

FitOk(K) == [status |-> "ok", xc |-> Fin(K.xc), yc |-> Fin(K.yc), r |-> Fin(K.r)]

\* the fit fails: NaN for every value, or an error raised
FitNaN == [status |-> "nan", xc |-> NaN, yc |-> NaN, r |-> NaN]

FitRaise == [status |-> "raise", xc |-> NaN, yc |-> NaN, r |-> NaN]

\* least_squares_circle(x, y) of the given points: it fails on collinear
\* points; points that lie on a circle give that circle; any other points
\* give some circle
CircleFitsOf(xys) ==
    IF Collinear(xys) THEN {FitNaN, FitRaise}
    ELSE IF \E K \in CircleCandidates : OnCircle(K, xys)
         THEN {FitOk(K) : K \in {C \in CircleCandidates : OnCircle(C, xys)}}
         ELSE {FitOk(K) : K \in CircleCandidates}

least_squares_circle(points) == CircleFitsOf(XYSet(points))

\* generate_circle_points and np.argsort(np.linalg.norm(circle, axis=1))[0]:
\* the point of the circle nearest to the beam axis (centre on an axis)
NearestOnCircle(fit) ==
    IF fit.status # "ok" THEN [x |-> NaN, y |-> NaN]
    ELSE IF fit.xc.v # 0
         THEN [x |-> Fin(fit.xc.v - fit.r.v * Sign(fit.xc.v)), y |-> Fin(0)]
         ELSE [x |-> Fin(0), y |-> Fin(fit.yc.v - fit.r.v * Sign(fit.yc.v))]

Slopes == {-1, 0, 1}

Intercepts == {0, 1}

LineOk(s, b) == [status |-> "ok", slope |-> Fin(s), intercept |-> Fin(b)]

LineNaN == [status |-> "nan", slope |-> NaN, intercept |-> NaN]

LineRaise == [status |-> "raise", slope |-> NaN, intercept |-> NaN]

\* scipy.stats.linregress(zs, ys), the ys given by their squares: NaN when a
\* y is NaN; ValueError for fewer than two points; NaN or ValueError (by the
\* scipy version) when all zs are identical; slope 0 for constant ys; any
\* line otherwise
linregress(zs, y2s, ysNaN) ==
    IF ysNaN THEN {LineNaN}
    ELSE IF Len(zs) < 2 THEN {LineRaise}
    ELSE IF \A i \in 1..Len(zs) : zs[i] = zs[1] THEN {LineNaN, LineRaise}
    ELSE IF \A i \in 1..Len(y2s) : y2s[i] = y2s[1] THEN {LineOk(0, ISqrt(y2s[1]))}
    ELSE {LineOk(sl, b) : sl \in Slopes, b \in Intercepts}

(***************************************************************************)
(* Angles in units of pi / (4 AngQ)                                        *)
(***************************************************************************)
Pi == 4 * AngQ

\* math.atan of a slope of the model (0, 1, -1, an infinity or NaN)
Atan(slope) ==
    IF IsNaN(slope) THEN NaN
    ELSE IF slope.k = "inf" THEN Fin(slope.v * 2 * AngQ)
    ELSE Fin(slope.v * AngQ)

\* math.atan2(dy, dx) for a direction along an axis or a diagonal
Atan2(dy, dx) ==
    IF IsNaN(dy) \/ IsNaN(dx) THEN NaN
    ELSE CASE dy.v = 0 /\ dx.v >= 0 -> Fin(0)
           [] dy.v = 0 /\ dx.v < 0 -> Fin(Pi)
           [] dx.v = 0 /\ dy.v > 0 -> Fin(2 * AngQ)
           [] dx.v = 0 /\ dy.v < 0 -> Fin(-2 * AngQ)
           [] dx.v # 0 /\ Abs(dx.v) = Abs(dy.v) ->
                Fin(Sign(dy.v) * (IF dx.v > 0 THEN AngQ ELSE 3 * AngQ))

\* lines 150-152: azimuthal -= 1.5 pi; if azimuthal < 0: azimuthal += 2 pi
ShiftAndWrap(azimuthal) ==
    IF FLess(FSub(azimuthal, Fin(6 * AngQ)), Fin(0))
    THEN FAdd(FSub(azimuthal, Fin(6 * AngQ)), Fin(2 * Pi))
    ELSE FSub(azimuthal, Fin(6 * AngQ))

\* mutant of NormaliseAzimuthal: the second wrap-around is left out
NormaliseOnce(azimuthal) ==
    FSub(IF FLess(azimuthal, Fin(0)) THEN FAdd(azimuthal, Fin(2 * Pi)) ELSE azimuthal,
         Fin(6 * AngQ))

\* lines 148-152: the azimuthal angle from the atan2 result
NormaliseAzimuthal(azimuthal) ==
    ShiftAndWrap(IF FLess(azimuthal, Fin(0)) THEN FAdd(azimuthal, Fin(2 * Pi)) ELSE azimuthal)

(***************************************************************************)
(* estimate_physics, statement by statement.  The locals of a call are a   *)
(* record; a step gives the set of the locals it may leave (the fits are   *)
(* not computed here, see least_squares_circle and linregress).            *)
(***************************************************************************)
RECURSIVE SumSeq(_)
SumSeq(values) == IF values = <<>> THEN 0 ELSE values[1] + SumSeq(Tail(values))

Max(a, b) == IF a > b THEN a ELSE b

FORWARD == 0

BACKWARD == 1

DirectionNONE == -1

NoQuot == [k |-> "nan", num |-> 0, ang |-> 0]

\* the locals at the start of a call with the arguments in
Locals(in) ==
    [outcome |-> "running", in |-> in, data |-> in.data, direction |-> DirectionNONE,
     max_rho_index |-> 0, begin_radius |-> NaN, end_radius |-> NaN,
     maximum |-> 0, first_arc |-> <<>>, fit |-> FitNaN,
     vertex |-> [x |-> Fin(0), y |-> Fin(0), z |-> Fin(0)],
     center_z |-> Fin(0), line |-> LineNaN, vertex_rho |-> NaN,
     polar |-> NaN, atan2 |-> NaN, azimuthal |-> NaN, brho |-> NoQuot,
     arclength |-> 0, charge_deposited |-> 0, dEdx |-> NoQuot,
     integral_len |-> NaN, eloss |-> 0, cutoff_index |-> 0]

\* mutant of TooFewPoints: a cluster of exactly the minimum is rejected too
TooFewPointsInclusive(n, min_total) == n <= min_total

\* line 66: len(cluster.data) < estimate_params.min_total_trajectory_points
TooFewPoints(n, min_total) == n < min_total

\* lines 68-76: more than 0.9 of the points lie in the beam region
BeamDominated(data, radius) ==
    10 * Cardinality({i \in 1..Len(data) : Rho2(data[i]) < radius * radius}) > 9 * Len(data)

\* lines 65-77: the two rejections on entry
CheckSize(l) ==
    IF TooFewPoints(Len(l.data), l.in.min_total) THEN [l EXCEPT !.outcome = "too_few"]
    ELSE IF BeamDominated(l.data, l.in.beam_radius) THEN [l EXCEPT !.outcome = "beam"]
    ELSE l

\* mutant of DirectionOf: the test of the index of the largest rho is left out
DirectionByRadii(max_rho_index, n, rho_first, rho_last, begin_radius, end_radius) ==
    IF FLess(begin_radius, end_radius) THEN BACKWARD ELSE FORWARD

\* lines 98-106: the direction of the trajectory
DirectionOf(max_rho_index, n, rho_first, rho_last, begin_radius, end_radius) ==
    IF 10 * max_rho_index > 9 * n
    THEN (IF rho_first < rho_last THEN FORWARD ELSE BACKWARD)
    ELSE IF FLess(begin_radius, end_radius) THEN BACKWARD
    ELSE FORWARD

\* lines 92-110 once the two circle fits b and e are there
WithDirection(l, b, e, dir) ==
    [l EXCEPT !.begin_radius = b.r,
              !.end_radius = e.r,
              !.max_rho_index = ArgMax([i \in 1..Len(l.data) |-> Rho2(l.data[i])]),
              !.direction = dir,
              !.data = IF dir = BACKWARD THEN Flip(l.data) ELSE l.data]

AfterHalfFits(l, b, e) ==
    IF b.status = "raise" \/ e.status = "raise" THEN [l EXCEPT !.outcome = "raised"]
    ELSE WithDirection(l, b, e,
            DirectionOf(ArgMax([i \in 1..Len(l.data) |-> Rho2(l.data[i])]), Len(l.data),
                        Rho2(l.data[1]), Rho2(l.data[Len(l.data)]), b.r, e.r))

\* lines 79-110: the circle fits of the two halves, the direction, the flip
ResolveDirection(l) ==
    IF l.outcome # "running" THEN {l}
    ELSE {AfterHalfFits(l, b, e) :
            b \in least_squares_circle(Slice(l.data, 0, Len(l.data) \div 2)),
            e \in least_squares_circle(Slice(l.data, Len(l.data) \div 2, Len(l.data)))}

\* mutant of FirstArcEnd: the arc ends at the last point of the cluster
FirstArcWhole(data, maximum) == Len(data)

\* line 118: the end (exclusive) of the slice cluster.data[:(maximum + 1)]
FirstArcEnd(data, maximum) == maximum + 1

\* lines 116-117: np.argmax of the rho distance of data[1:] to the first point
MaximumOf(data) ==
    ArgMax([i \in 1..(Len(data) - 1) |-> Dist2xy(data[i + 1], data[1].x, data[1].y)])

\* lines 121-127 once the circle fit is there
WithCircle(l, maximum, first_arc, c) ==
    IF c.status = "raise" THEN [l EXCEPT !.outcome = "raised"]
    ELSE [l EXCEPT !.maximum = maximum,
                   !.first_arc = first_arc,
                   !.fit = c,
                   !.vertex = [x |-> NearestOnCircle(c).x, y |-> NearestOnCircle(c).y,
                               z |-> Fin(l.data[1].z)]]

FitFirstArc(l, maximum, first_arc) ==
    {WithCircle(l, maximum, first_arc, c) : c \in least_squares_circle(first_arc)}

\* lines 112-129: the first arc, its circle, the vertex in (x, y)
FindVertexXY(l) ==
    IF l.outcome # "running" THEN {l}
    ELSE FitFirstArc(l, MaximumOf(l.data),
                     Slice(l.data, 0, FirstArcEnd(l.data, MaximumOf(l.data))))

\* line 134: np.linalg.norm(vertex[:2])
VertexRho(vertex) ==
    IF IsNaN(vertex.x) \/ IsNaN(vertex.y) THEN NaN
    ELSE Fin(ISqrt(vertex.x.v * vertex.x.v + vertex.y.v * vertex.y.v))

\* lines 134-140 once the line fit is there
WithLine(l, fit, vertex_rho) ==
    IF fit.status = "raise" THEN [l EXCEPT !.outcome = "raised"]
    ELSE [l EXCEPT !.line = fit,
                   !.vertex_rho = vertex_rho,
                   !.vertex.z = FDiv(FSub(vertex_rho, fit.intercept), fit.slope),
                   !.center_z = FDiv(FSub(vertex_rho, fit.intercept), fit.slope),
                   !.outcome = IF FGreater(vertex_rho, Fin(l.in.max_dist))
                               THEN "vertex_far" ELSE "running"]

\* line 129: the rho distances to the vertex, squared (for a vertex that is
\* not NaN)
RhoToVertex2(points, vertex) ==
    [i \in 1..Len(points) |->
        IF IsNaN(vertex.x) THEN 0 ELSE Dist2xy(points[i], vertex.x.v, vertex.y.v)]

FitLine(l, segment) ==
    {WithLine(l, fit, VertexRho(l.vertex)) :
        fit \in linregress([i \in 1..Len(segment) |-> segment[i].z],
                           RhoToVertex2(segment, l.vertex), IsNaN(l.vertex.x))}

\* lines 131-140: the line fit, the vertex in z, the rejection of far vertices
FindVertexZ(l) ==
    IF l.outcome # "running" THEN {l}
    ELSE FitLine(l, Slice(l.data, 0, Max(10, l.maximum \div 2)))

\* lines 142-144: polar = atan(slope), plus pi if backward
PolarOf(slope, direction) ==
    IF direction = BACKWARD THEN FAdd(Atan(slope), Fin(Pi)) ELSE Atan(slope)

\* lines 154-156: B * radius * 0.001 / sin(polar), and NaN replaced by 0.  The
\* quotient is kept as its numerator and its angle.  sin(polar) is 0.0 for
\* polar = 0.0 only; dividing by 0.0 gives NaN (0/0) or an infinity for a
\* numpy radius and ZeroDivisionError for a Python float
BrhoOf(B, radius, polar) ==
    IF IsNaN(radius) \/ IsNaN(polar) THEN {[k |-> "fin", num |-> 0, ang |-> 0]}
    ELSE IF polar.v = 0
         THEN {IF B * radius.v = 0 THEN [k |-> "fin", num |-> 0, ang |-> 0]
                                   ELSE [k |-> "inf", num |-> B * radius.v, ang |-> 0],
               [k |-> "raise", num |-> B * radius.v, ang |-> 0]}
         ELSE {[k |-> "fin", num |-> B * radius.v, ang |-> polar.v]}

WithAngles(l, polar, atan2, brho) ==
    IF brho.k = "raise" THEN [l EXCEPT !.outcome = "raised", !.polar = polar]
    ELSE [l EXCEPT !.polar = polar,
                   !.atan2 = atan2,
                   !.azimuthal = NormaliseAzimuthal(atan2),
                   !.brho = brho]

\* lines 142-156: polar, azimuthal, brho
FindAngles(l) ==
    IF l.outcome # "running" THEN {l}
    ELSE {WithAngles(l, PolarOf(l.line.slope, l.direction),
                     Atan2(FSub(l.vertex.y, l.fit.yc), FSub(l.vertex.x, l.fit.xc)), brho) :
            brho \in BrhoOf(l.in.B, l.fit.r, PolarOf(l.line.slope, l.direction))}

\* lines 158-160: the sum of the step lengths along the first arc
ArcLength(first_arc) ==
    SumSeq([i \in 1..(Len(first_arc) - 1) |-> Norm3(first_arc[i + 1], first_arc[i])])

WithArc(l, arclength, charge) ==
    IF arclength = 0 THEN [l EXCEPT !.outcome = "zero_arc"]
    ELSE [l EXCEPT !.arclength = arclength,
                   !.charge_deposited = charge,
                   !.dEdx = [k |-> "fin", num |-> charge, ang |-> arclength]]

\* lines 158-164: arc length, rejection of zero arc length, dE/dx
FindEnergyLoss(l) ==
    IF l.outcome # "running" THEN l
    ELSE WithArc(l, ArcLength(l.first_arc),
                 SumSeq([i \in 1..Len(l.first_arc) |-> l.first_arc[i].q]))

\* line 166: np.linalg.norm(cluster.data[0, :3] - vertex)
DistanceToVertex(p, vertex) ==
    IF IsNaN(vertex.x) \/ IsNaN(vertex.y) \/ IsNaN(vertex.z) THEN NaN
    ELSE IF vertex.z.k = "inf" THEN Inf(1)
    ELSE Fin(Norm3(p, [x |-> vertex.x.v, y |-> vertex.y.v, z |-> vertex.z.v]))

\* mutant of ElossLoop: the test of the cutoff is left out
ElossLoopNoCutoff(data, index, eloss, integral_len) ==
    [eloss |-> SumSeq([i \in 1..Len(data) |-> data[i].q]), cutoff_index |-> Len(data)]

RECURSIVE ElossLoop(_, _, _, _)
\* lines 170-180: the while loop
ElossLoop(data, index, eloss, integral_len) ==
    IF index = Len(data) \/ FGreater(integral_len, Fin(Cutoff))
    THEN [eloss |-> eloss, cutoff_index |-> index]
    ELSE ElossLoop(data, index + 1, eloss + data[index + 1].q,
                   FAdd(integral_len, Fin(Norm3(data[index + 1], data[index]))))

WithEloss(l, integral_len, loop) ==
    [l EXCEPT !.integral_len = integral_len,
              !.eloss = loop.eloss,
              !.cutoff_index = loop.cutoff_index,
              !.outcome = "emitted"]

\* lines 166-180: the energy-loss integral up to the cutoff
IntegrateEloss(l) ==
    IF l.outcome # "running" THEN l
    ELSE WithEloss(l, DistanceToVertex(l.data[1], l.vertex),
                   ElossLoop(l.data, 1, l.data[1].q, DistanceToVertex(l.data[1], l.vertex)))

\* estimate_physics: every way the call may end
estimate_physics(in) ==
    {IntegrateEloss(FindEnergyLoss(l4)) :
        l4 \in UNION {FindAngles(l3) :
            l3 \in UNION {FindVertexZ(l2) :
                l2 \in UNION {FindVertexXY(l1) :
                    l1 \in ResolveDirection(CheckSize(Locals(in)))}}}}

ResultColumns ==
    {"event", "cluster_index", "cluster_label", "ic_amplitude", "ic_centroid",
     "ic_integral", "vertex_x", "vertex_y", "vertex_z", "center_x", "center_y",
     "center_z", "polar", "azimuthal", "brho", "dEdx", "dE", "arclength",
     "direction", "eloss", "cutoff_index"}

\* lines 182-202: the value appended to each column
RowOf(l) ==
    [event |-> l.in.event, cluster_index |-> l.in.cluster_index,
     cluster_label |-> l.in.label, ic_amplitude |-> l.in.ic_amplitude,
     ic_centroid |-> l.in.ic_centroid, ic_integral |-> l.in.ic_integral,
     vertex_x |-> l.vertex.x, vertex_y |-> l.vertex.y, vertex_z |-> l.vertex.z,
     center_x |-> l.fit.xc, center_y |-> l.fit.yc, center_z |-> l.center_z,
     polar |-> l.polar, azimuthal |-> l.azimuthal, brho |-> l.brho,
     dEdx |-> l.dEdx, dE |-> l.charge_deposited, arclength |-> l.arclength,
     direction |-> l.direction, eloss |-> l.eloss, cutoff_index |-> l.cutoff_index]

\* mutant of Appended: the columns known before the test of the arc length are
\* appended before it
AppendedEarly(res, l) ==
    IF l.outcome = "emitted"
    THEN [c \in ResultColumns |-> Append(res[c], RowOf(l)[c])]
    ELSE IF l.outcome = "zero_arc"
         THEN [c \in ResultColumns |->
                 IF c \in {"polar", "azimuthal", "brho"} THEN Append(res[c], RowOf(l)[c])
                 ELSE res[c]]
         ELSE res

\* the results dictionary after the call
Appended(res, l) ==
    IF l.outcome = "emitted"
    THEN [c \in ResultColumns |-> Append(res[c], RowOf(l)[c])]
    ELSE res

notEst == <<config, idx, rpc, phase, log, p4, fs, az, frib, ivp>>

EstInit ==
    /\ est \in [pc : {"called"},
                call : [data : EstClusters, min_total : MinTotals, beam_radius : BeamRadii,
                        max_dist : MaxDistances, B : MagneticFields,
                        event : {1}, cluster_index : {0}, label : {0},
                        ic_amplitude : {0}, ic_centroid : {0}, ic_integral : {0}],
                l : {<<>>}]
    /\ results = [c \in ResultColumns |-> <<>>]
    /\ config = [run_min |-> 0, run_max |-> 0, do_phase |-> [k \in 1..NumPhases |-> FALSE]]
    /\ idx = 0 /\ rpc = "done" /\ phase = 1 /\ log = <<>>
    /\ p4 = <<>> /\ fs = <<>> /\ az = <<>> /\ frib = <<>> /\ ivp = <<>>

\* one call of estimate_physics, from entry to return (or to an exception)
EstimatePhysics ==
    /\ est.pc = "called"
    /\ \E l \in estimate_physics(est.call) :
          /\ est' = [est EXCEPT !.pc = "returned", !.l = l]
          /\ results' = Appended(results, l)
    /\ UNCHANGED notEst

EstNext == EstimatePhysics

SpecEst == EstInit /\ [][EstNext]_vars

(***************************************************************************)
(* A sequence of estimate_physics calls on one results dictionary          *)
(***************************************************************************)
MaxCalls == 2

\* clusters that are rejected at each of the returns, that fail, and that
\* give a row
SeqClusters ==
    { <<Pt(0, 0, 0, 1)>>,
      <<Pt(0, 0, 0, 1), Pt(1, 1, 300, 2), Pt(0, 0, 0, 1)>>,
      <<Pt(2, 0, 600, 3), Pt(1, 1, 300, 2)>>,
      <<Pt(2, 0, 600, 3), Pt(1, 1, 300, 2), Pt(0, 2, 900, 4)>>,
      TwoArcs(<<Pt(0, 2, 900, 4), Pt(0, 0, 0, 1), Pt(1, 1, 300, 2)>>,
              <<Pt(0, 0, 0, 1), Pt(1, 1, 300, 2), Pt(2, 0, 600, 3)>>),
      TwoArcs(<<Pt(0, 4, 1500, 6), Pt(1, 3, 1200, 5), Pt(0, 2, 900, 4)>>,
              <<Pt(0, 0, 0, 1), Pt(1, 1, 300, 2), Pt(2, 0, 600, 3)>>) }

\* the arguments of the call number n (from 0) on the cluster data
SeqCall(data, n) ==
    [data |-> data, min_total |-> 2, beam_radius |-> 2, max_dist |-> 1, B |-> 1,
     event |-> 1, cluster_index |-> n, label |-> 0,
     ic_amplitude |-> 0, ic_centroid |-> 0, ic_integral |-> 0]

EstSeqInit ==
    /\ est = [pc |-> "idle", history |-> <<>>]
    /\ results = [c \in ResultColumns |-> <<>>]
    /\ config = [run_min |-> 0, run_max |-> 0, do_phase |-> [k \in 1..NumPhases |-> FALSE]]
    /\ idx = 0 /\ rpc = "done" /\ phase = 1 /\ log = <<>>
    /\ p4 = <<>> /\ fs = <<>> /\ az = <<>> /\ frib = <<>> /\ ivp = <<>>

\* the next call of estimate_physics, from entry to return (or to an
\* exception), on the same results dictionary
EstimateNextCluster ==
    /\ Len(est.history) < MaxCalls
    /\ \E data \in SeqClusters :
          \E l \in estimate_physics(SeqCall(data, Len(est.history))) :
              /\ est' = [est EXCEPT !.history = Append(@, l)]
              /\ results' = Appended(results, l)
    /\ UNCHANGED notEst

EstSeqNext == EstimateNextCluster

SpecEstSeq == EstSeqInit /\ [][EstSeqNext]_vars

notAz == <<config, idx, rpc, phase, log, p4, fs, est, results, frib, ivp>>

AzInit ==
    /\ az \in [pc : {"start"}, atan2 : {Fin(a) : a \in (-Pi)..Pi}, azimuthal : {NaN}]
    /\ config = [run_min |-> 0, run_max |-> 0, do_phase |-> [k \in 1..NumPhases |-> FALSE]]
    /\ idx = 0 /\ rpc = "done" /\ phase = 1 /\ log = <<>>
    /\ p4 = <<>> /\ fs = <<>> /\ est = <<>> /\ results = <<>> /\ frib = <<>> /\ ivp = <<>>

\* lines 147-152 applied to an atan2 result
Normalise ==
    /\ az.pc = "start"
    /\ az' = [az EXCEPT !.pc = "done", !.azimuthal = NormaliseAzimuthal(az.atan2)]
    /\ UNCHANGED notAz

AzNext == Normalise

SpecAzimuthal == AzInit /\ [][AzNext]_vars

(***************************************************************************)
(* FribEvent.get_good_ic_peak and FribEvent.correct_ic_time.  A peak is    *)
(* its centroid.                                                           *)
(***************************************************************************)
MaxPeaks == 3

MaxSiPeaks == 2

\* frib_event.py line 136: the coincidence window
SiWindow == 50

\* SAMPLING_FREQUENCY = 12.5 MHz, in units of 0.125 MHz
SAMPLING_FREQUENCY == 100

\* Peak(): the centroid of a default-constructed Peak
DefaultCentroid == -1

\* the centroids of the ion chamber peaks and of the silicon peaks
IcCentroids == {0, 100, 160, 300}

SiCentroids == {51, 110}

\* params.ic_multiplicity
IcMultiplicities == {1, 2}

\* get_frequency (3.125 MHz and 6.25 MHz), in units of 0.125 MHz
GetFrequencies == {25, 50}

NoneResult == [ok |-> FALSE, count |-> 0, index |-> -1, peak |-> DefaultCentroid]

SomeResult(count, index, peak) == [ok |-> TRUE, count |-> count, index |-> index, peak |-> peak]

\* lines 135-138: the inner loop over the silicon peaks
si_coinc(ic, si_peaks) ==
    \E j \in 1..Len(si_peaks) : Abs(ic - si_peaks[j]) < SiWindow

RECURSIVE GoodIcLoop(_, _, _, _, _)
\* lines 133-141: the loop over the ion chamber peaks, idx from 0
GoodIcLoop(ic_peaks, si_peaks, idx0, good_ic_count, good_ic_index) ==
    IF idx0 = Len(ic_peaks)
    THEN [good_ic_count |-> good_ic_count, good_ic_index |-> good_ic_index]
    ELSE IF si_coinc(ic_peaks[idx0 + 1], si_peaks)
         THEN GoodIcLoop(ic_peaks, si_peaks, idx0 + 1, good_ic_count, good_ic_index)
         ELSE GoodIcLoop(ic_peaks, si_peaks, idx0 + 1, good_ic_count + 1, idx0)

\* lines 143-147: the result from the counters of the loop
GoodIcResult(ic_peaks, loop, ic_multiplicity) ==
    IF loop.good_ic_count > ic_multiplicity \/ loop.good_ic_count = 0
    THEN NoneResult
    ELSE SomeResult(loop.good_ic_count, loop.good_ic_index, ic_peaks[loop.good_ic_index + 1])

\* lines 101-147
get_good_ic_peak(ic_peaks, si_peaks, ic_multiplicity) ==
    IF Len(ic_peaks) = 0 THEN NoneResult
    ELSE IF Len(si_peaks) = 0
         THEN (IF Len(ic_peaks) = 1 THEN SomeResult(1, 0, ic_peaks[1]) ELSE NoneResult)
         ELSE GoodIcResult(ic_peaks, GoodIcLoop(ic_peaks, si_peaks, 0, 0, -1), ic_multiplicity)

\* mutant of ReplacesEarliest: the test of the default centroid is left out
ReplacesEarliestNoSentinel(ic, earliest_ic) == ic < earliest_ic

\* line 176: ic.centroid < earliest_ic.centroid or earliest_ic.centroid < 0.0
ReplacesEarliest(ic, earliest_ic) == ic < earliest_ic \/ earliest_ic < 0

RECURSIVE EarliestLoop(_, _, _)
\* lines 174-177: the loop over the ion chamber peaks, i from 1
EarliestLoop(ic_peaks, i, earliest_ic) ==
    IF i > Len(ic_peaks) THEN earliest_ic
    ELSE EarliestLoop(ic_peaks, i + 1,
                      IF ReplacesEarliest(ic_peaks[i], earliest_ic) THEN ic_peaks[i]
                      ELSE earliest_ic)

\* lines 178-182: the quotient, kept as numerator and denominator
correct_ic_time(ic_peaks, good_peak, get_frequency) ==
    [num |-> (good_peak - EarliestLoop(ic_peaks, 1, DefaultCentroid)) * get_frequency,
     den |-> SAMPLING_FREQUENCY]

notFrib == <<config, idx, rpc, phase, log, p4, fs, est, results, az, ivp>>

FribInit ==
    /\ frib \in [pc : {"start"},
                 ic_peaks : SeqsUpTo(IcCentroids, MaxPeaks),
                 si_peaks : SeqsUpTo(SiCentroids, MaxSiPeaks),
                 ic_multiplicity : IcMultiplicities,
                 get_frequency : GetFrequencies,
                 good : {NoneResult},
                 good_peak : {DefaultCentroid},
                 correction : {[num |-> 0, den |-> SAMPLING_FREQUENCY]}]
    /\ config = [run_min |-> 0, run_max |-> 0, do_phase |-> [k \in 1..NumPhases |-> FALSE]]
    /\ idx = 0 /\ rpc = "done" /\ phase = 1 /\ log = <<>>
    /\ p4 = <<>> /\ fs = <<>> /\ est = <<>> /\ results = <<>> /\ az = <<>> /\ ivp = <<>>

\* a call of get_good_ic_peak(params)
GetGoodIcPeak ==
    /\ frib.pc = "start"
    /\ frib' = [frib EXCEPT !.pc = "got",
                            !.good = get_good_ic_peak(frib.ic_peaks, frib.si_peaks,
                                                      frib.ic_multiplicity)]
    /\ UNCHANGED notFrib

\* a call of correct_ic_time(good_peak, get_frequency) with a peak of the ion
\* chamber trace: the one get_good_ic_peak gave, or any other
CorrectIcTime ==
    /\ frib.pc = "got"
    /\ \E g \in 1..Len(frib.ic_peaks) :
          /\ frib.good.ok => g = frib.good.index + 1
          /\ frib' = [frib EXCEPT !.pc = "corrected",
                                  !.good_peak = frib.ic_peaks[g],
                                  !.correction = correct_ic_time(frib.ic_peaks, frib.ic_peaks[g],
                                                                 frib.get_frequency)]
    /\ UNCHANGED notFrib

FribNext == GetGoodIcPeak \/ CorrectIcTime

SpecFrib == FribInit /\ [][FribNext]_vars

(***************************************************************************)
(* Tests/Phase5Test.py: motionIVP, SolveIVP, objective, for one trial.     *)
(* The motion is along one axis: vec = [x, v]; energies are in keV.        *)
(***************************************************************************)
MaxSteps == 3

VMax == 6

\* line 31: E < 0.001 (MeV)
ELow == 1

\* line 31: E > 50 (MeV)
EHigh == 50000

\* line 30: the kinetic energy, which grows with the speed
Energy(v) == 2000 * v * v

\* the stopping power table of the missing Phase5 module: positive
dEdx_interp(E) == 1

\* line 31
OutOfRange(E) == E < ELow \/ E > EHigh

\* lines 12-44: the derivative, or the scalar 1 of line 32
motionIVP(vec) ==
    IF OutOfRange(Energy(vec.v)) THEN [scalar |-> TRUE, dx |-> 1, dv |-> 1]
    ELSE [scalar |-> FALSE, dx |-> vec.v, dv |-> -dEdx_interp(Energy(vec.v))]

\* solve_ivp advancing by one step of unit length with the derivative f; a
\* scalar f counts for every component
Advance1(vec, f) == [x |-> vec.x + f.dx, v |-> vec.v + f.dv]

\* the positions of the cluster points of a trial
SubsetPoints == {0, 3}

Subsets == SeqsUpTo(SubsetPoints, 2) \ {<<>>}

MinOf(S) == CHOOSE m \in S : \A n \in S : m <= n

\* lines 87-98: the mean over the points of the subset of the least distance
\* to the trajectory
objective(guess, subset) ==
    Fin(SumSeq([i \in 1..Len(subset) |->
                  MinOf({Abs(guess[j].x - subset[i]) : j \in 1..Len(guess)})])
        \div Len(subset))

notIvp == <<config, idx, rpc, phase, log, p4, fs, est, results, az, frib>>

IvpInit ==
    /\ ivp \in [pc : {"start"}, nan_input : Booleans, v0 : 0..VMax, subset : Subsets,
                steps : {0}, traj : {<<>>}, obj : {NaN}]
    /\ config = [run_min |-> 0, run_max |-> 0, do_phase |-> [k \in 1..NumPhases |-> FALSE]]
    /\ idx = 0 /\ rpc = "done" /\ phase = 1 /\ log = <<>>
    /\ p4 = <<>> /\ fs = <<>> /\ est = <<>> /\ results = <<>> /\ az = <<>> /\ frib = <<>>

\* lines 62-63 and 108: a NaN parameter makes SolveIVP return 0, which
\* objective cannot index
SolveIVPNaN ==
    /\ ivp.pc = "start" /\ ivp.nan_input
    /\ ivp' = [ivp EXCEPT !.pc = "raised"]
    /\ UNCHANGED notIvp

\* lines 64-75: the initial state
SolveIVPStart ==
    /\ ivp.pc = "start" /\ ~ivp.nan_input
    /\ ivp' = [ivp EXCEPT !.pc = "integrating", !.traj = <<[x |-> 0, v |-> ivp.v0]>>]
    /\ UNCHANGED notIvp

\* lines 77-82: one step of solve_ivp from a state whose energy is in range
IntegrateStep ==
    /\ ivp.pc = "integrating" /\ ivp.steps < MaxSteps
    /\ ~motionIVP(ivp.traj[Len(ivp.traj)]).scalar
    /\ ivp' = [ivp EXCEPT !.steps = @ + 1,
                          !.traj = Append(@, Advance1(ivp.traj[Len(ivp.traj)],
                                                      motionIVP(ivp.traj[Len(ivp.traj)])))]
    /\ UNCHANGED notIvp

\* lines 31-32 and 77-82: one step of solve_ivp from a state whose energy is
\* out of range; motionIVP gives the scalar 1, which solve_ivp takes as the
\* derivative of every component
OutOfRangeStep ==
    /\ ivp.pc = "integrating" /\ ivp.steps < MaxSteps
    /\ motionIVP(ivp.traj[Len(ivp.traj)]).scalar
    /\ ivp' = [ivp EXCEPT !.steps = @ + 1,
                          !.traj = Append(@, Advance1(ivp.traj[Len(ivp.traj)],
                                                      motionIVP(ivp.traj[Len(ivp.traj)])))]
    /\ UNCHANGED notIvp

\* lines 84-86 and 108: the end of the time span; the objective of the trial
Objective ==
    /\ ivp.pc = "integrating" /\ ivp.steps = MaxSteps
    /\ ivp' = [ivp EXCEPT !.pc = "done", !.obj = objective(ivp.traj, ivp.subset)]
    /\ UNCHANGED notIvp

IvpNext == SolveIVPNaN \/ SolveIVPStart \/ IntegrateStep \/ OutOfRangeStep \/ Objective

SpecIvp == IvpInit /\ [][IvpNext]_vars

(***************************************************************************)
(* Claims about run_spyral                                                 *)
(***************************************************************************)
CallEvents == {i \in 1..Len(log) : log[i].ev = "call"}

Called(r, k) == \E i \in CallEvents : log[i].run = r /\ log[i].phase = k

\* (run, phase) of event i comes strictly before (run, phase) of event j
Before(i, j) ==
    \/ log[i].run < log[j].run
    \/ log[i].run = log[j].run /\ log[i].phase < log[j].phase

\* C1: run_spyral visits the runs run_min..run_max in ascending order; within
\* a run the enabled phases are invoked in the order 1, 2, 3, 4; a disabled
\* phase is never invoked; a phase has returned before the next one is
\* invoked; when the driver returns every enabled phase of every run of the
\* range was invoked exactly once, and nothing is invoked when
\* run_min > run_max.
C1_RunOrder ==
    /\ \A i \in CallEvents :
          /\ config.run_min <= log[i].run /\ log[i].run <= config.run_max
          /\ config.do_phase[log[i].phase]
          /\ i < Len(log) =>
                /\ log[i + 1].ev \in {"ret", "raise"}
                /\ log[i + 1].run = log[i].run
                /\ log[i + 1].phase = log[i].phase
          /\ i = Len(log) => rpc = "in"
    /\ \A i, j \in CallEvents : i < j => Before(i, j)
    /\ rpc = "done" =>
          \A r \in config.run_min..config.run_max : \A k \in 1..NumPhases :
              config.do_phase[k] => Called(r, k)
    /\ config.run_min > config.run_max => log = <<>>

\* a finished batch of two or more runs with phases 2 and 4 switched on and
\* phase 1 and 3 switched off
C1_Witness ==
    /\ rpc = "done"
    /\ config.run_min < config.run_max
    /\ config.do_phase = <<FALSE, TRUE, FALSE, TRUE>>
    /\ Len(log) = 4 * (config.run_max - config.run_min + 1)

\* C2: a phase that raises while processing run i is fatal for run i only:
\* once run_spyral has ended, the selected phases were invoked for every
\* later run i+1 .. run_max.
C2_LaterRunsStillProcessed ==
    rpc \in {"done", "raised"} =>
        \A i \in 1..Len(log) : log[i].ev = "raise" =>
            \A r \in (log[i].run + 1)..config.run_max : \A k \in 1..NumPhases :
                config.do_phase[k] => Called(r, k)

(***************************************************************************)
(* Claims about Cut2D serialisation                                        *)
(***************************************************************************)
ProbePoints == {<<x, y>> : x \in {-2, 0, 2, 5, 11}, y \in {-2, 0, 2, 5, 11}}

SameCut(a, b) ==
    /\ a.name = b.name
    /\ a.vertices = b.vertices
    /\ \A p \in ProbePoints : is_point_inside(a, p[1], p[2]) = is_point_inside(b, p[1], p[2])

\* C10: a Cut2D written with write_cut_json and reloaded with load_cut_json
\* has the same name, the same vertices in the same order and the same
\* is_point_inside answers.
C10_RoundTrip ==
    (fs.writes >= 1 /\ fs.loaded # NotLoaded) =>
        (fs.loaded.status = "ok" /\ SameCut(fs.loaded.cut, fs.cut))

\* the round trip does hold when the file was new before the one write
RoundTripOfNewFile ==
    (fs.writes = 1 /\ fs.loaded # NotLoaded) =>
        (fs.loaded.status = "ok" /\ SameCut(fs.loaded.cut, fs.cut))

(***************************************************************************)
(* Claims about phase_4                                                    *)
(***************************************************************************)
RowInside(r) == is_point_inside(p4.cut, r.dEdx, r.brho)

\* the rows of the estimate table inside the particle-ID polygon, in row order
InsideRows == SelectSeq(p4.rows, RowInside)

ExpectedCall(r) ==
    [cidx |-> r.cluster_index, event |-> r.event,
     iv |-> [polar |-> r.polar, brho |-> r.brho]]

\* C3: phase_4 invokes solve_physics exactly once for each estimate row whose
\* (dEdx, brho) lies inside the particle-ID polygon, in row order, with that
\* row's event, cluster_index and initial values, and never for a row
\* outside the polygon.
C3_SolverCallsAreGatedRows ==
    /\ p4.pc \in {"loop", "done"} =>
          /\ Len(p4.solve_calls) = p4.row
          /\ p4.row <= Len(InsideRows)
          /\ \A i \in 1..p4.row : p4.solve_calls[i] = ExpectedCall(InsideRows[i])
    /\ p4.pc = "done" => Len(p4.solve_calls) = Len(InsideRows)
    /\ p4.pc \notin {"loop", "done"} => p4.solve_calls = <<>>

\* phase_4 is done with a table whose first row is outside and whose second
\* row is inside the polygon
C3_Witness ==
    /\ p4.pc = "done"
    /\ Len(p4.rows) = 2
    /\ ~RowInside(p4.rows[1])
    /\ RowInside(p4.rows[2])
    /\ p4.solve_calls = <<ExpectedCall(p4.rows[2])>>

Returned == est.pc = "returned"

Emitted == Returned /\ est.l.outcome = "emitted"

NothingAppended == \A c \in ResultColumns : results[c] = <<>>

\* C5: a cluster with fewer than min_total_trajectory_points points gives no
\* row, and a cluster with exactly that many points is not rejected on size
C5_SizeRejection ==
    Returned =>
        /\ Len(est.call.data) < est.call.min_total =>
              est.l.outcome = "too_few" /\ NothingAppended
        /\ Len(est.call.data) = est.call.min_total => est.l.outcome # "too_few"

\* a cluster of exactly the minimum size went through to a row
C5_Witness ==
    Emitted /\ Len(est.call.data) = est.call.min_total /\ ~NothingAppended

\* C6: every soft failure returns normally and appends nothing; no row has a
\* NaN vertex, polar, azimuthal or brho
C6_SoftFailuresEmitNothing ==
    Returned =>
        /\ est.l.outcome # "raised"
        /\ est.l.outcome # "emitted" => NothingAppended
        /\ est.l.outcome = "emitted" =>
              /\ ~IsNaN(est.l.vertex.x) /\ ~IsNaN(est.l.vertex.y) /\ ~IsNaN(est.l.vertex.z)
              /\ ~IsNaN(est.l.polar) /\ ~IsNaN(est.l.azimuthal)
              /\ est.l.brho.k # "nan"

\* C7: in every row the first point of cluster.data is no farther from the
\* vertex than the last point
C7_OrderedFromVertex ==
    Emitted =>
        FLessEq(DistanceToVertex(est.l.data[1], est.l.vertex),
                DistanceToVertex(est.l.data[Len(est.l.data)], est.l.vertex))

\* C9: with polar = 0 the call goes on and brho is 0
C9_ZeroPolarGivesZeroBrho ==
    (Returned /\ est.l.polar = Fin(0)) =>
        /\ est.l.outcome # "raised"
        /\ est.l.brho.k = "fin" /\ est.l.brho.num = 0

(***************************************************************************)
(* Claims about the azimuthal angle                                        *)
(***************************************************************************)
\* C8: for every atan2 result in [-pi, pi] the normalised azimuthal angle v
\* has 0 <= v < 2 pi
C8_AzimuthalInRange ==
    az.pc = "done" =>
        /\ IsFinite(az.azimuthal)
        /\ 0 <= az.azimuthal.v /\ az.azimuthal.v < 2 * Pi
        /\ (az.azimuthal.v - (az.atan2.v - 6 * AngQ)) % (2 * Pi) = 0

\* an atan2 result below -pi/2, for which both wrap-arounds are taken
C8_Witness == az.pc = "done" /\ az.atan2.v < -(2 * AngQ) /\ az.azimuthal.v > Pi

(***************************************************************************)
(* Claims about FribEvent                                                  *)
(***************************************************************************)
\* the indices (from 1) of the ion chamber peaks with no silicon peak within
\* the window
GoodPeaks ==
    {i \in 1..Len(frib.ic_peaks) :
        \A j \in 1..Len(frib.si_peaks) : Abs(frib.ic_peaks[i] - frib.si_peaks[j]) >= SiWindow}

\* C11: a result that is not None holds the good peak of lowest index and the
\* number of good peaks
C11_FirstGoodPeak ==
    (frib.pc = "got" /\ frib.good.ok) =>
        /\ frib.good.count = Cardinality(GoodPeaks)
        /\ frib.good.index + 1 \in GoodPeaks
        /\ \A i \in GoodPeaks : frib.good.index + 1 <= i
        /\ frib.good.peak = frib.ic_peaks[frib.good.index + 1]

\* what does hold: the count, and the good peak of highest index
LastGoodPeak ==
    (frib.pc = "got" /\ frib.good.ok) =>
        /\ frib.good.count = Cardinality(GoodPeaks)
        /\ frib.good.index + 1 \in GoodPeaks
        /\ \A i \in GoodPeaks : i <= frib.good.index + 1

\* C12: the result is not None exactly when the number of good peaks is at
\* least 1 and at most ic_multiplicity
C12_NotNoneIffMultiplicity ==
    frib.pc = "got" =>
        (frib.good.ok <=>
            (1 <= Cardinality(GoodPeaks) /\ Cardinality(GoodPeaks) <= frib.ic_multiplicity))

\* what does hold: the equivalence when there is a silicon peak
NotNoneIffMultiplicityWithSilicon ==
    (frib.pc = "got" /\ Len(frib.si_peaks) > 0) =>
        (frib.good.ok <=>
            (1 <= Cardinality(GoodPeaks) /\ Cardinality(GoodPeaks) <= frib.ic_multiplicity))

\* C17: the correction is (good_peak - smallest centroid) * get_frequency /
\* 12.5, which is >= 0, and 0 when the good peak is the earliest
C17_CorrectionFromEarliest ==
    frib.pc = "corrected" =>
        /\ \E e \in 1..Len(frib.ic_peaks) :
              /\ \A i \in 1..Len(frib.ic_peaks) : frib.ic_peaks[e] <= frib.ic_peaks[i]
              /\ frib.correction.num = (frib.good_peak - frib.ic_peaks[e]) * frib.get_frequency
        /\ frib.correction.den = SAMPLING_FREQUENCY
        /\ frib.correction.num >= 0
        /\ (\A i \in 1..Len(frib.ic_peaks) : frib.good_peak <= frib.ic_peaks[i]) =>
              frib.correction.num = 0

\* the earliest peak is not the first of the trace, and the good peak is a
\* later one
C17_Witness ==
    /\ frib.pc = "corrected"
    /\ Len(frib.ic_peaks) >= 2
    /\ \E i \in 2..Len(frib.ic_peaks) : frib.ic_peaks[i] < frib.ic_peaks[1]
    /\ frib.correction.num > 0

(***************************************************************************)
(* Claims about the solver                                                 *)
(***************************************************************************)
\* the steps (indices of the trajectory) taken from an energy out of range
AbortedAt == {j \in 1..Len(ivp.traj) : OutOfRange(Energy(ivp.traj[j].v))}

\* C13: after the energy is out of [0.001, 50] MeV the state does not advance
\* any more, and the objective of the trial is +infinity
C13_EnergyAbort ==
    /\ ivp.pc \in {"integrating", "done"} =>
          \A j \in AbortedAt : \A k \in j..Len(ivp.traj) : ivp.traj[k] = ivp.traj[j]
    /\ (ivp.pc = "done" /\ AbortedAt # {}) => ivp.obj = Inf(1)

\* what does hold: a state whose energy is in range is integrated (50 MeV
\* itself is in range), and the objective is finite
InRangeIntegrates ==
    /\ ivp.pc \in {"integrating", "done"} =>
          \A j \in 1..(Len(ivp.traj) - 1) :
              j \notin AbortedAt =>
                  ivp.traj[j + 1] = [x |-> ivp.traj[j].x + ivp.traj[j].v, v |-> ivp.traj[j].v - 1]
    /\ ivp.pc = "done" => IsFinite(ivp.obj)

(***************************************************************************)
(* Claims about the direction, the first arc, the energy-loss loop and     *)
(* the result columns of estimate_physics                                  *)
(***************************************************************************)
\* the index (from 0) of the first point of greatest rho
FirstGreatestRho(data) ==
    CHOOSE k \in 0..(Len(data) - 1) :
        /\ \A j \in 1..Len(data) : Rho2(data[j]) <= Rho2(data[k + 1])
        /\ \A j \in 1..k : Rho2(data[j]) < Rho2(data[k + 1])

RuleDirection(data, begin_radius, end_radius) ==
    IF 10 * FirstGreatestRho(data) > 9 * Len(data)
    THEN (IF Rho2(data[1]) < Rho2(data[Len(data)]) THEN FORWARD ELSE BACKWARD)
    ELSE IF FLess(begin_radius, end_radius) THEN BACKWARD
    ELSE FORWARD

\* C14: the direction follows the rule, and the points are reversed if and
\* only if it is Backward
C14_DirectionRule ==
    /\ (Returned /\ est.l.direction # DirectionNONE) =>
          /\ est.l.direction =
                RuleDirection(est.call.data, est.l.begin_radius, est.l.end_radius)
          /\ est.l.direction = BACKWARD =>
                est.l.data = [i \in 1..Len(est.call.data) |->
                                 est.call.data[Len(est.call.data) + 1 - i]]
          /\ est.l.direction = FORWARD => est.l.data = est.call.data
    /\ (Returned /\ est.l.direction = DirectionNONE) =>
          est.l.outcome \in {"too_few", "beam", "raised"}

\* a row of a cluster whose largest rho is in its last tenth and which was
\* reversed
C14_Witness ==
    /\ Emitted
    /\ 10 * FirstGreatestRho(est.call.data) > 9 * Len(est.call.data)
    /\ est.l.direction = BACKWARD
    /\ est.l.data # est.call.data

\* the index (from 0) in the cluster of the first point of greatest rho
\* distance to point 0 among the points after it
FarthestFromFirst(data) ==
    CHOOSE k \in 1..(Len(data) - 1) :
        /\ \A j \in 2..Len(data) :
              Dist2xy(data[j], data[1].x, data[1].y) <= Dist2xy(data[k + 1], data[1].x, data[1].y)
        /\ \A j \in 2..k :
              Dist2xy(data[j], data[1].x, data[1].y) < Dist2xy(data[k + 1], data[1].x, data[1].y)

\* C15: the first arc is the points 0..k, k the index of the farthest point
C15_FirstArcIncludesFarthest ==
    (Returned /\ est.l.first_arc # <<>>) =>
        est.l.first_arc = SubSeq(est.l.data, 1, FarthestFromFirst(est.l.data) + 1)

\* what does hold: the first arc is the points 0..k-1
FirstArcExcludesFarthest ==
    (Returned /\ est.l.first_arc # <<>>) =>
        est.l.first_arc = SubSeq(est.l.data, 1, FarthestFromFirst(est.l.data))

\* the path length along the points 0..i-1 of the cluster
PathLength(data, i) ==
    SumSeq([j \in 1..(i - 1) |-> Norm3(data[j + 1], data[j])])

\* the loop of a row stopped as it does when the length before point 0 is start
ElossLoopStops(start) ==
    /\ 1 <= est.l.cutoff_index /\ est.l.cutoff_index <= Len(est.l.data)
    /\ est.l.eloss = SumSeq([j \in 1..est.l.cutoff_index |-> est.l.data[j].q])
    /\ \/ est.l.cutoff_index = Len(est.l.data)
       \/ FGreater(FAdd(start, Fin(PathLength(est.l.data, est.l.cutoff_index))), Fin(Cutoff))
    /\ \A i \in 1..(est.l.cutoff_index - 1) :
          ~FGreater(FAdd(start, Fin(PathLength(est.l.data, i))), Fin(Cutoff))

\* C16 as stated: the path length is counted from point 0
C16_ElossLoopFromPointZero == Emitted => ElossLoopStops(Fin(0))

\* C16 amended: the path length is counted from the vertex, i.e. it starts
\* at the distance from the vertex to point 0
C16_ElossLoopFromVertex ==
    Emitted => ElossLoopStops(DistanceToVertex(est.l.data[1], est.l.vertex))

\* a row whose loop stopped inside the cluster, the vertex not being point 0
C16_Witness ==
    /\ Emitted
    /\ 1 < est.l.cutoff_index /\ est.l.cutoff_index < Len(est.l.data)
    /\ IsFinite(est.l.integral_len) /\ est.l.integral_len.v > 0

\* the calls so far that gave a row
AcceptedCalls == SelectSeq(est.history, LAMBDA l : l.outcome = "emitted")

\* C18: every column has one entry for each accepted call, in the order of
\* the calls, and entry i of every column is of the i-th accepted cluster
C18_ColumnsAligned ==
    \A c \in ResultColumns :
        /\ Len(results[c]) = Len(AcceptedCalls)
        /\ \A i \in 1..Len(AcceptedCalls) :
              /\ results[c][i] = RowOf(AcceptedCalls[i])[c]
              /\ results["cluster_index"][i] = AcceptedCalls[i].in.cluster_index

\* a cluster rejected for its arc length, after its angles were computed,
\* then an accepted one
C18_Witness ==
    /\ Len(est.history) >= 2
    /\ est.history[1].outcome = "zero_arc"
    /\ est.history[2].outcome = "emitted"
    /\ Len(results["brho"]) = 1

====
